---- MODULE Spec2Model ----
(***************************************************************************)
(* EdgeBoundary (analytical_engine/apps/boundary/edge_boundary.h): every   *)
(* fragment resolves the two identifier lists, scans the out-edges of its  *)
(* inner vertices of the first list, contributes its boundary to an        *)
(* AllGather, and fragment 0 merges the gathered boundaries and writes the *)
(* result tensor.                                                          *)
(***************************************************************************)
EXTENDS Integers, Sequences, FiniteSets, TLC

\* ---------------------------------------------------------------- bounds
MaxFrag == 2
MaxEdges == 2
MaxSubset == 2
\* How many times the driver of SpecEnv invokes IncEval at most.
MaxIncEval == 2

\* External identifiers of the vertices of the graph, and identifiers that
\* name no vertex of it.
Oids == {1, 2}
AbsentOids == {3}
AllOids == Oids \cup AbsentOids

VARIABLES
    edges,          \* the graph: a sequence of <<src oid, dst oid>>, parallel edges allowed
    fnum,           \* number of fragments
    owner,          \* owner[v]: the fragment of which vertex v is an inner vertex
    nbunch1,        \* ctx.nbunch1 (the same text in every fragment's context)
    nbunch2,        \* ctx.nbunch2
    pc,             \* pc[f]: where fragment f stands in PEval
    node_gid_set,   \* PEval's local std::set node_gid_set, per fragment
    node_gid_set_2, \* PEval's local std::set node_gid_set_2, per fragment
    todo,           \* the gids of node_gid_set the loop of line 68 has yet to visit
    boundary,       \* ctx.boundary, per fragment: a std::set, in its order
    slot,           \* the communicator: what each fragment handed to AllGather
    all_boundary,   \* PEval's local vector all_boundary, per fragment
    idx,            \* the merge loop's i (line 90), per fragment
    data,           \* the tensor data assigned to the context, per fragment
    shape,          \* the tensor shape assigned to the context, per fragment
    assigned,       \* how many times ctx.assign ran, per fragment
    calls,          \* how many times PEval was invoked, per fragment
    sent,           \* messages emitted through the message manager, per fragment
    phase,          \* the driver: "Initial", "Evaluated", "Terminated"
    rounds,         \* synchronization rounds the driver has completed
    inc_calls       \* how many times IncEval was invoked, on any fragment

vars == <<edges, fnum, owner, nbunch1, nbunch2, pc, node_gid_set, node_gid_set_2,
          todo, boundary, slot, all_boundary, idx, data, shape, assigned, calls,
          sent, phase, rounds, inc_calls>>

inputs == <<edges, fnum, owner, nbunch1, nbunch2>>

Fids == 0 .. (fnum - 1)

\* -------------------------------------------------------------- helpers
\* The order of std::pair<vid_t, vid_t> in a std::set.
PairLess(p, q) == p[1] < q[1] \/ (p[1] = q[1] /\ p[2] < q[2])

\* A faulty variant of SetInsert: a container that keeps equal pairs (a multiset).
SetInsertMulti(s, p) ==
    LET n == Cardinality({k \in 1 .. Len(s) : PairLess(s[k], p)})
    IN  SubSeq(s, 1, n) \o <<p>> \o SubSeq(s, n + 1, Len(s))

\* std::set<std::pair<vid_t, vid_t>> is kept as the sequence of its elements
\* in the set's order; insert puts a pair in its place unless the set holds it.
SetInsert(s, p) ==
    IF \E k \in 1 .. Len(s) : s[k] = p THEN s
    ELSE LET n == Cardinality({k \in 1 .. Len(s) : PairLess(s[k], p)})
         IN  SubSeq(s, 1, n) \o <<p>> \o SubSeq(s, n + 1, Len(s))

\* Lines 91-93: every pair of one gathered set is inserted.
RECURSIVE InsertAll(_, _)
InsertAll(s, ps) ==
    IF ps = <<>> THEN s ELSE InsertAll(SetInsert(s, Head(ps)), Tail(ps))

MinOf(S) == CHOOSE x \in S : \A y \in S : x <= y

\* The sequences over S of length at most n.
RECURSIVE SeqsUpTo(_, _)
SeqsUpTo(S, n) ==
    IF n = 0 THEN {<<>>}
    ELSE LET shorter == SeqsUpTo(S, n - 1)
         IN  shorter \cup
             {Append(s, x) : s \in {t \in shorter : Len(t) = n - 1}, x \in S}

\* s is in non-decreasing order.
IsSorted(s, Less(_, _)) ==
    \A k \in 1 .. (Len(s) - 1) : s[k] = s[k + 1] \/ Less(s[k], s[k + 1])

\* s is in increasing order: no element twice.
IsStrict(s, Less(_, _)) == \A k \in 1 .. (Len(s) - 1) : Less(s[k], s[k + 1])

NumLess(a, b) == a < b

\* ------------------------------------------------------------- the texts
EmptyString == [kind |-> "empty", elems |-> <<>>]
JsonArray(s) == [kind |-> "array", elems |-> s]

\* A text that is not JSON.
Malformed == [kind |-> "malformed", elems |-> <<>>]

\* folly::parseJson throws on a text that is not JSON, the empty text included.
ParseFails(text) == text.kind # "array"

\* folly::parseJson on a text holding a JSON array: its elements in order.
parseJson(text) == text.elems

\* Lines 49 and 58-59: PEval parses nbunch1, and nbunch2 unless it is empty.
ParseError == ParseFails(nbunch1) \/ (nbunch2.kind # "empty" /\ ParseFails(nbunch2))

\* ---------------------------------------------------------- the fragment
\* gid = fid * FidStride + lid
FidStride == Cardinality(Oids)

InnerOids(f) == {v \in Oids : owner[v] = f}
OuterOids(f) == Oids \ InnerOids(f)

Lid(v) == Cardinality({w \in InnerOids(owner[v]) : w < v})
GidOf(v) == owner[v] * FidStride + Lid(v)

\* frag.Oid2Gid(oid, gid): whether oid is a vertex, and its gid.
Oid2GidOk(oid) == oid \in Oids
Oid2Gid(oid) == GidOf(oid)

\* frag.Gid2Oid(gid)
Gid2Oid(gid) == CHOOSE v \in Oids : GidOf(v) = gid

\* The local handle of vertex v in fragment f: inner vertices first.
Handle(f, v) ==
    IF owner[v] = f THEN Lid(v)
    ELSE Cardinality(InnerOids(f)) + Cardinality({w \in OuterOids(f) : w < v})

\* frag.InnerVertexGid2Vertex(gid, u)
InnerVertexGid2VertexOk(f, gid) == \E v \in InnerOids(f) : GidOf(v) = gid
InnerVertexGid2Vertex(f, gid) ==
    Handle(f, CHOOSE v \in InnerOids(f) : GidOf(v) = gid)

\* frag.Vertex2Gid(v)
Vertex2Gid(f, h) == GidOf(CHOOSE v \in Oids : Handle(f, v) = h)

\* frag.GetOutgoingAdjList(u): the neighbours' handles, one per edge.
RECURSIVE AdjOf(_, _, _)
AdjOf(f, u, es) ==
    IF es = <<>> THEN <<>>
    ELSE (IF Handle(f, es[1][1]) = u THEN <<Handle(f, es[1][2])>> ELSE <<>>)
         \o AdjOf(f, u, Tail(es))

GetOutgoingAdjList(f, u) == AdjOf(f, u, edges)

\* ----------------------------------------------------------------- PEval
\* A faulty variant of ResolveOids: the result of Oid2Gid is not tested, and an unknown
\* identifier leaves gid 0 in the set.
RECURSIVE ResolveOidsUnchecked(_, _)
ResolveOidsUnchecked(node_array, gids) ==
    IF node_array = <<>> THEN gids
    ELSE ResolveOidsUnchecked(Tail(node_array),
                              IF Oid2GidOk(Head(node_array))
                              THEN gids \cup {Oid2Gid(Head(node_array))}
                              ELSE gids \cup {0})

\* Lines 53-57 and 60-64: the gids of the identifiers the fragment knows.
RECURSIVE ResolveOids(_, _)
ResolveOids(node_array, gids) ==
    IF node_array = <<>> THEN gids
    ELSE ResolveOids(Tail(node_array),
                     IF Oid2GidOk(Head(node_array))
                     THEN gids \cup {Oid2Gid(Head(node_array))}
                     ELSE gids)

\* Lines 58-65: the second set stays empty when the text is empty.
ResolveSecond(text) ==
    IF text.kind # "empty" THEN ResolveOids(parseJson(text), {}) ELSE {}

\* A faulty variant of InBoundary: the complement rule without the test of line 73.
InBoundaryNoComplement(set1, set2, vgid) ==
    IF set2 = {} THEN TRUE ELSE vgid \in set2

\* Lines 72-80: whether edge (gid, vgid) goes into the boundary.
InBoundary(set1, set2, vgid) ==
    IF set2 = {} THEN vgid \notin set1 ELSE vgid \in set2

\* A faulty variant of ScanAdjList: a neighbour that is not an inner vertex of the
\* fragment is passed over.
RECURSIVE ScanAdjListLocal(_, _, _, _, _, _)
ScanAdjListLocal(f, gid, adj, set1, set2, bnd) ==
    IF adj = <<>> THEN bnd
    ELSE ScanAdjListLocal(f, gid, Tail(adj), set1, set2,
                          IF /\ InnerVertexGid2VertexOk(f, Vertex2Gid(f, Head(adj)))
                             /\ InBoundary(set1, set2, Vertex2Gid(f, Head(adj)))
                          THEN SetInsert(bnd, <<gid, Vertex2Gid(f, Head(adj))>>)
                          ELSE bnd)

\* A faulty variant of ScanAdjList: the pair is built target first.
RECURSIVE ScanAdjListReversed(_, _, _, _, _, _)
ScanAdjListReversed(f, gid, adj, set1, set2, bnd) ==
    IF adj = <<>> THEN bnd
    ELSE ScanAdjListReversed(f, gid, Tail(adj), set1, set2,
                             IF InBoundary(set1, set2, Vertex2Gid(f, Head(adj)))
                             THEN SetInsert(bnd, <<Vertex2Gid(f, Head(adj)), gid>>)
                             ELSE bnd)

\* Lines 70-81: the out-edges of u, one after the other.
RECURSIVE ScanAdjList(_, _, _, _, _, _)
ScanAdjList(f, gid, adj, set1, set2, bnd) ==
    IF adj = <<>> THEN bnd
    ELSE ScanAdjList(f, gid, Tail(adj), set1, set2,
                     IF InBoundary(set1, set2, Vertex2Gid(f, Head(adj)))
                     THEN SetInsert(bnd, <<gid, Vertex2Gid(f, Head(adj))>>)
                     ELSE bnd)

\* Lines 69-82: one iteration of the loop over node_gid_set.
ScanGid(f, gid, set1, set2, bnd) ==
    IF InnerVertexGid2VertexOk(f, gid)
    THEN ScanAdjList(f, gid, GetOutgoingAdjList(f, InnerVertexGid2Vertex(f, gid)),
                     set1, set2, bnd)
    ELSE bnd

\* Lines 108-112: the flat sequence of external identifiers.
RECURSIVE FlattenPairs(_)
FlattenPairs(ps) ==
    IF ps = <<>> THEN <<>>
    ELSE <<Gid2Oid(ps[1][1]), Gid2Oid(ps[1][2])>> \o FlattenPairs(Tail(ps))

TensorData(bnd) == FlattenPairs(bnd)

\* A faulty variant of TensorShape: the row count is the length of the flat data.
TensorShapeFlat(d) == <<Len(d), 2>>

\* Line 113
TensorShape(d) == <<Len(d) \div 2, 2>>

\* The gids among td that pass the test of line 69 in fragment f. An iteration
\* of the loop of line 68 whose test fails changes nothing: the loop passes
\* over it.
InnerOf(f, td) == {g \in td : InnerVertexGid2VertexOk(f, g)}

\* Lines 68-87, with td the gids the loop has yet to visit and bnd the
\* fragment's boundary: the loop stands before its next inner gid, or it has
\* run out and the fragment has entered AllGather, handing over its boundary.
LoopOrGather(f, td, bnd) ==
    IF InnerOf(f, td) = {}
    THEN /\ todo' = [todo EXCEPT ![f] = {}]
         /\ slot' = [slot EXCEPT ![f] = <<bnd>>]
         /\ pc' = [pc EXCEPT ![f] = "wait"]
    ELSE /\ todo' = [todo EXCEPT ![f] = td]
         /\ slot' = slot
         /\ pc' = [pc EXCEPT ![f] = "scan"]

\* A faulty variant of Resolve: an identifier that names no vertex stops PEval.
ResolveFatal(f) ==
    /\ phase = "Initial"
    /\ pc[f] = "start"
    /\ ~ParseError
    /\ \A k \in 1 .. Len(parseJson(nbunch1)) : Oid2GidOk(parseJson(nbunch1)[k])
    /\ calls' = [calls EXCEPT ![f] = @ + 1]
    /\ node_gid_set' = [node_gid_set EXCEPT ![f] = ResolveOids(parseJson(nbunch1), {})]
    /\ node_gid_set_2' = [node_gid_set_2 EXCEPT ![f] = ResolveSecond(nbunch2)]
    /\ LoopOrGather(f, ResolveOids(parseJson(nbunch1), {}), boundary[f])
    /\ UNCHANGED <<inputs, inc_calls, boundary, all_boundary, idx, data, shape,
                   assigned, sent, phase, rounds>>

\* A faulty variant of Resolve: PEval emits a message.
ResolveSends(f) ==
    /\ phase = "Initial"
    /\ pc[f] = "start"
    /\ ~ParseError
    /\ calls' = [calls EXCEPT ![f] = @ + 1]
    /\ sent' = [sent EXCEPT ![f] = @ + 1]
    /\ node_gid_set' = [node_gid_set EXCEPT ![f] = ResolveOids(parseJson(nbunch1), {})]
    /\ node_gid_set_2' = [node_gid_set_2 EXCEPT ![f] = ResolveSecond(nbunch2)]
    /\ LoopOrGather(f, ResolveOids(parseJson(nbunch1), {}), boundary[f])
    /\ UNCHANGED <<inputs, inc_calls, boundary, all_boundary, idx, data, shape,
                   assigned, phase, rounds>>

\* A faulty variant of Resolve: a text that does not parse counts as an empty
\* array.
ResolveLenient(f) ==
    /\ phase = "Initial"
    /\ pc[f] = "start"
    /\ calls' = [calls EXCEPT ![f] = @ + 1]
    /\ node_gid_set' = [node_gid_set EXCEPT ![f] = ResolveOids(parseJson(nbunch1), {})]
    /\ node_gid_set_2' = [node_gid_set_2 EXCEPT ![f] = ResolveSecond(nbunch2)]
    /\ LoopOrGather(f, ResolveOids(parseJson(nbunch1), {}), boundary[f])
    /\ UNCHANGED <<inputs, inc_calls, boundary, all_boundary, idx, data, shape,
                   assigned, sent, phase, rounds>>

\* Lines 46-65: the driver invokes PEval on fragment f; both texts are parsed
\* and resolved, and the loop of line 68 is entered.
Resolve(f) ==
    /\ phase = "Initial"
    /\ pc[f] = "start"
    /\ ~ParseError
    /\ calls' = [calls EXCEPT ![f] = @ + 1]
    /\ node_gid_set' = [node_gid_set EXCEPT ![f] = ResolveOids(parseJson(nbunch1), {})]
    /\ node_gid_set_2' = [node_gid_set_2 EXCEPT ![f] = ResolveSecond(nbunch2)]
    /\ LoopOrGather(f, ResolveOids(parseJson(nbunch1), {}), boundary[f])
    /\ UNCHANGED <<inputs, inc_calls, boundary, all_boundary, idx, data, shape,
                   assigned, sent, phase, rounds>>

\* Lines 49 and 59: the driver invokes PEval on fragment f and folly::parseJson
\* throws; the exception leaves PEval before line 68, and the locals are gone.
PEvalThrows(f) ==
    /\ phase = "Initial"
    /\ pc[f] = "start"
    /\ ParseError
    /\ calls' = [calls EXCEPT ![f] = @ + 1]
    /\ pc' = [pc EXCEPT ![f] = "failed"]
    /\ UNCHANGED <<inputs, inc_calls, node_gid_set, node_gid_set_2, todo, boundary,
                   slot, all_boundary, idx, data, shape, assigned, sent, phase, rounds>>

\* Lines 68-87: the loop, in the set's order, scans the next gid that is an
\* inner vertex of the fragment.
ScanStep(f) ==
    /\ pc[f] = "scan"
    /\ LET gid == MinOf(InnerOf(f, todo[f]))
           bnd == ScanGid(f, gid, node_gid_set[f], node_gid_set_2[f], boundary[f])
       IN  /\ boundary' = [boundary EXCEPT ![f] = bnd]
           /\ LoopOrGather(f, {g \in todo[f] : g > gid}, bnd)
    /\ UNCHANGED <<inputs, inc_calls, node_gid_set, node_gid_set_2, all_boundary,
                   idx, data, shape, assigned, calls, sent, phase, rounds>>

\* A faulty variant of Gathered: slot i holds what fragment i + 1 handed over,
\* and the last slot what fragment 0 did.
GatheredRotated == [i \in 1 .. fnum |-> slot[i % fnum][1]]

\* What AllGather returns: one slot per fragment, indexed by fragment id.
Gathered == [i \in 1 .. fnum |-> slot[i - 1][1]]

\* A faulty variant of AfterGather: the test of line 89 is missing.
AfterGatherAll(f) == "merge"

\* Where PEval goes after AllGather (line 89).
AfterGather(f) == IF f = 0 THEN "merge" ELSE "done"

\* A faulty variant of AllGatherRecv: the call returns what has been handed over so far,
\* without waiting for the other fragments.
AllGatherRecvNoBarrier(f) ==
    /\ pc[f] = "wait"
    /\ all_boundary' = [all_boundary EXCEPT ![f] =
           [i \in 1 .. fnum |-> IF slot[i - 1] = <<>> THEN <<>> ELSE slot[i - 1][1]]]
    /\ idx' = [idx EXCEPT ![f] = 1]
    /\ pc' = [pc EXCEPT ![f] = AfterGather(f)]
    /\ UNCHANGED <<inputs, inc_calls, node_gid_set, node_gid_set_2, todo, boundary, slot,
                   data, shape, assigned, calls, sent, phase, rounds>>

\* A faulty variant of AllGatherRecv: the call waits for one contribution
\* more than there are fragments.
AllGatherRecvOneMore(f) ==
    /\ pc[f] = "wait"
    /\ \A g \in 0 .. fnum : g < MaxFrag /\ slot[g] # <<>>
    /\ all_boundary' = [all_boundary EXCEPT ![f] = Gathered]
    /\ idx' = [idx EXCEPT ![f] = 1]
    /\ pc' = [pc EXCEPT ![f] = AfterGather(f)]
    /\ UNCHANGED <<inputs, inc_calls, node_gid_set, node_gid_set_2, todo, boundary, slot,
                   data, shape, assigned, calls, sent, phase, rounds>>

\* Line 87, leaving AllGather: every fragment has contributed.
AllGatherRecv(f) ==
    /\ pc[f] = "wait"
    /\ \A g \in Fids : slot[g] # <<>>
    /\ all_boundary' = [all_boundary EXCEPT ![f] = Gathered]
    /\ idx' = [idx EXCEPT ![f] = 1]
    /\ pc' = [pc EXCEPT ![f] = AfterGather(f)]
    /\ UNCHANGED <<inputs, inc_calls, node_gid_set, node_gid_set_2, todo, boundary, slot,
                   data, shape, assigned, calls, sent, phase, rounds>>

\* A faulty variant of MergeStep: the gathered slot replaces the coordinator's
\* boundary instead of being inserted into it.
MergeStepAssign(f) ==
    /\ pc[f] = "merge"
    /\ idx[f] < Len(all_boundary[f])
    /\ boundary' = [boundary EXCEPT ![f] = all_boundary[f][idx[f] + 1]]
    /\ idx' = [idx EXCEPT ![f] = @ + 1]
    /\ UNCHANGED <<inputs, inc_calls, pc, node_gid_set, node_gid_set_2, todo, slot,
                   all_boundary, data, shape, assigned, calls, sent, phase, rounds>>

\* A faulty variant of MergeStep: a slot that has been merged is emptied at the
\* fragment it came from.
MergeStepMoves(f) ==
    /\ pc[f] = "merge"
    /\ idx[f] < Len(all_boundary[f])
    /\ boundary' = [g \in DOMAIN boundary |->
                       IF g = f THEN InsertAll(boundary[f], all_boundary[f][idx[f] + 1])
                       ELSE IF g = idx[f] THEN <<>> ELSE boundary[g]]
    /\ idx' = [idx EXCEPT ![f] = @ + 1]
    /\ UNCHANGED <<inputs, inc_calls, pc, node_gid_set, node_gid_set_2, todo, slot,
                   all_boundary, data, shape, assigned, calls, sent, phase, rounds>>

\* Lines 90-94: one iteration of the merge loop; all_boundary[i] of the code
\* is all_boundary[f][i + 1] here.
MergeStep(f) ==
    /\ pc[f] = "merge"
    /\ idx[f] < Len(all_boundary[f])
    /\ boundary' = [boundary EXCEPT ![f] = InsertAll(@, all_boundary[f][idx[f] + 1])]
    /\ idx' = [idx EXCEPT ![f] = @ + 1]
    /\ UNCHANGED <<inputs, inc_calls, pc, node_gid_set, node_gid_set_2, todo, slot,
                   all_boundary, data, shape, assigned, calls, sent, phase, rounds>>

\* A faulty variant of WriteToCtx: the rows are appended to those the context
\* holds already.
WriteToCtxAppends(f) ==
    /\ pc[f] = "merge"
    /\ idx[f] >= Len(all_boundary[f])
    /\ data' = [data EXCEPT ![f] = @ \o TensorData(boundary[f])]
    /\ shape' = [shape EXCEPT ![f] = TensorShape(data[f] \o TensorData(boundary[f]))]
    /\ assigned' = [assigned EXCEPT ![f] = @ + 1]
    /\ pc' = [pc EXCEPT ![f] = "done"]
    /\ UNCHANGED <<inputs, inc_calls, node_gid_set, node_gid_set_2, todo, boundary, slot,
                   all_boundary, idx, calls, sent, phase, rounds>>

\* Lines 95 and 107-115: the coordinator writes the tensor; PEval returns.
WriteToCtx(f) ==
    /\ pc[f] = "merge"
    /\ idx[f] >= Len(all_boundary[f])
    /\ data' = [data EXCEPT ![f] = TensorData(boundary[f])]
    /\ shape' = [shape EXCEPT ![f] = TensorShape(TensorData(boundary[f]))]
    /\ assigned' = [assigned EXCEPT ![f] = @ + 1]
    /\ pc' = [pc EXCEPT ![f] = "done"]
    /\ UNCHANGED <<inputs, inc_calls, node_gid_set, node_gid_set_2, todo, boundary, slot,
                   all_boundary, idx, calls, sent, phase, rounds>>

\* A faulty variant of IncEval: the boundary is dropped.
IncEvalClears(f) ==
    /\ phase = "Evaluated"
    /\ inc_calls < MaxIncEval
    /\ inc_calls' = inc_calls + 1
    /\ boundary' = [boundary EXCEPT ![f] = <<>>]
    /\ UNCHANGED <<inputs, pc, node_gid_set, node_gid_set_2, todo, slot,
                   all_boundary, idx, data, shape, assigned, calls, sent, phase, rounds>>

\* Lines 99-104: IncEval, invoked on fragment f; its body is empty.
IncEval(f) ==
    /\ phase = "Evaluated"
    /\ inc_calls < MaxIncEval
    /\ inc_calls' = inc_calls + 1
    /\ UNCHANGED <<inputs, pc, node_gid_set, node_gid_set_2, todo, boundary, slot,
                   all_boundary, idx, data, shape, assigned, calls, sent, phase, rounds>>

\* ------------------------------------------------------------ the driver
\* Every fragment has returned from PEval: the round is complete.
FinishRound ==
    /\ phase = "Initial"
    /\ \A f \in Fids : pc[f] = "done"
    /\ phase' = "Evaluated"
    /\ rounds' = rounds + 1
    /\ UNCHANGED <<inputs, inc_calls, pc, node_gid_set, node_gid_set_2, todo, boundary, slot,
                   all_boundary, idx, data, shape, assigned, calls, sent>>

\* No fragment reports pending work: the computation ends.
Terminate ==
    /\ phase = "Evaluated"
    /\ \A f \in Fids : sent[f] = 0
    /\ phase' = "Terminated"
    /\ UNCHANGED <<inputs, inc_calls, pc, node_gid_set, node_gid_set_2, todo, boundary, slot,
                   all_boundary, idx, data, shape, assigned, calls, sent, rounds>>

\* ------------------------------------------------------------------ Init
Graphs == SeqsUpTo(Oids \X Oids, MaxEdges)
Nbunches == {JsonArray(s) : s \in SeqsUpTo(AllOids, MaxSubset)}

\* The partitioned graph.
InitGraph ==
    /\ edges \in {g \in Graphs : IsSorted(g, PairLess)}
    /\ fnum \in 1 .. MaxFrag
    /\ owner \in [Oids -> 0 .. (MaxFrag - 1)]
    /\ \A v \in Oids : owner[v] < fnum

\* Texts that parse.
Nbunch1s == {b \in Nbunches : IsSorted(b.elems, NumLess)}
Nbunch2s == {b \in Nbunches : IsStrict(b.elems, NumLess)} \cup {EmptyString}

\* Freshly constructed contexts, and a driver that has not started.
InitContexts ==
    /\ pc = [f \in 0 .. (MaxFrag - 1) |-> "start"]
    /\ node_gid_set = [f \in 0 .. (MaxFrag - 1) |-> {}]
    /\ node_gid_set_2 = [f \in 0 .. (MaxFrag - 1) |-> {}]
    /\ todo = [f \in 0 .. (MaxFrag - 1) |-> {}]
    /\ boundary = [f \in 0 .. (MaxFrag - 1) |-> <<>>]
    /\ slot = [f \in 0 .. (MaxFrag - 1) |-> <<>>]
    /\ all_boundary = [f \in 0 .. (MaxFrag - 1) |-> <<>>]
    /\ idx = [f \in 0 .. (MaxFrag - 1) |-> 0]
    /\ data = [f \in 0 .. (MaxFrag - 1) |-> <<>>]
    /\ shape = [f \in 0 .. (MaxFrag - 1) |-> <<>>]
    /\ assigned = [f \in 0 .. (MaxFrag - 1) |-> 0]
    /\ calls = [f \in 0 .. (MaxFrag - 1) |-> 0]
    /\ sent = [f \in 0 .. (MaxFrag - 1) |-> 0]
    /\ phase = "Initial"
    /\ rounds = 0
    /\ inc_calls = 0

Init ==
    /\ InitGraph
    /\ nbunch1 \in Nbunch1s
    /\ nbunch2 \in Nbunch2s
    /\ InitContexts

Next ==
    \/ \E f \in Fids : Resolve(f)
    \/ \E f \in Fids : ScanStep(f)
    \/ \E f \in Fids : AllGatherRecv(f)
    \/ \E f \in Fids : MergeStep(f)
    \/ \E f \in Fids : WriteToCtx(f)
    \/ FinishRound
    \/ Terminate

Spec == Init /\ [][Next]_vars

\* The computation under fair scheduling. A step of a fragment or of the
\* driver that is possible stays possible until it is taken, so scheduling
\* every fragment and the driver fairly gives weak fairness of Next. The
\* graph has no parallel edges, the texts list no identifier twice, and the
\* second names one identifier at most.
InitFair ==
    /\ InitGraph
    /\ IsStrict(edges, PairLess)
    /\ nbunch1 \in {b \in Nbunch1s : IsStrict(b.elems, NumLess)}
    /\ nbunch2 \in {b \in Nbunch2s : Len(b.elems) <= 1}
    /\ InitContexts

SpecFair == InitFair /\ [][Next]_vars /\ WF_vars(Next)

\* Any texts, those that do not parse among them, and a driver that goes on
\* to invoke IncEval.
InitEnv ==
    /\ InitGraph
    /\ nbunch1 \in Nbunch1s \cup {Malformed, EmptyString}
    /\ nbunch2 \in Nbunch2s \cup {Malformed}
    /\ InitContexts

NextEnv ==
    \/ Next
    \/ \E f \in Fids : PEvalThrows(f)
    \/ \E f \in Fids : IncEval(f)

SpecEnv == InitEnv /\ [][NextEnv]_vars

\* ------------------------------------------------------------ the claims
\* What the inputs say, in external identifiers.
EdgeSet == {edges[k] : k \in 1 .. Len(edges)}
ListedIn(text) == {text.elems[k] : k \in 1 .. Len(text.elems)}
S1 == ListedIn(nbunch1)
S2 == ListedIn(nbunch2)

\* The rows of the tensor fragment f wrote.
RowSeq(f) == [k \in 1 .. (Len(data[f]) \div 2) |-> <<data[f][2 * k - 1], data[f][2 * k]>>]
Rows(f) == {RowSeq(f)[k] : k \in 1 .. Len(RowSeq(f))}

AllDone == \A f \in Fids : pc[f] = "done"

NoDup(s) == \A i, j \in 1 .. Len(s) : i # j => s[i] # s[j]

HasParallelEdges == \E i, j \in 1 .. Len(edges) : i # j /\ edges[i] = edges[j]
ListsTwice(text) ==
    \E i, j \in 1 .. Len(text.elems) : i # j /\ text.elems[i] = text.elems[j]

\* The edges from s1 into its complement, and from s1 into s2.
ComplementEdges(s1) == {e \in EdgeSet : e[1] \in s1 /\ e[2] \notin s1}
TargetedEdges(s1, s2) == {e \in EdgeSet : e[1] \in s1 /\ e[2] \in s2}

\* The rows expected of subsets s1 and s2, from the graph alone: the targeted
\* rule when s2 names a vertex of the graph, the complement rule otherwise.
RefEdges(s1, s2) ==
    IF s2 \cap Oids = {} THEN ComplementEdges(s1) ELSE TargetedEdges(s1, s2)

\* The same rows in the order of their gid pairs, flat.
GidPair(e) == <<GidOf(e[1]), GidOf(e[2])>>
FirstEdge(E) == CHOOSE e \in E : \A d \in E : d = e \/ PairLess(GidPair(e), GidPair(d))

RECURSIVE RefData(_)
RefData(E) ==
    IF E = {} THEN <<>> ELSE FirstEdge(E) \o RefData(E \ {FirstEdge(E)})

\* C1: complement mode. With an empty second subset, once PEval has returned
\* on every fragment the rows the coordinator wrote are exactly the edges from
\* S1 to a vertex outside S1.
C1_Complement ==
    (AllDone /\ S2 = {}) =>
        (assigned[0] = 1 /\ Rows(0) = ComplementEdges(S1))

C1_Witness ==
    /\ AllDone /\ S2 = {} /\ fnum = 2
    /\ \E e \in Rows(0) : owner[e[1]] # owner[e[2]]
    /\ \E e \in EdgeSet : e[1] \in S1 /\ e[2] \in S1

\* C2: targeted mode. With a non-empty second subset, once PEval has returned
\* on every fragment the rows the coordinator wrote are exactly the edges from
\* S1 to a vertex of S2.
C2_Targeted ==
    (AllDone /\ S2 # {}) => Rows(0) = TargetedEdges(S1, S2)

\* The targeted rule where the second subset names at least one vertex of the
\* graph: the part of C2 the code keeps.
C2_TargetedWhenResolved ==
    (AllDone /\ S2 \cap Oids # {}) => Rows(0) = TargetedEdges(S1, S2)

\* C3: partition-independence. Whatever the fragment count and the owner of
\* each vertex, the rows the coordinator wrote are those the graph, S1 and S2
\* determine, which are the rows of the run on one fragment.
C3_PartitionIndependent ==
    AllDone => Rows(0) = RefEdges(S1, S2)

C3_Witness ==
    /\ AllDone /\ fnum = 2
    /\ \E e \in Rows(0) : owner[e[1]] = 1 /\ owner[e[2]] = 0
    /\ \E e \in Rows(0) : owner[e[1]] = 0

\* C4: uniqueness. No boundary, no gathered set and no written tensor holds a
\* (source, destination) pair twice.
C4_Unique ==
    \A f \in Fids :
        /\ NoDup(boundary[f])
        /\ NoDup(RowSeq(f))
        /\ \A i \in 1 .. Len(all_boundary[f]) : NoDup(all_boundary[f][i])

C4_Witness ==
    /\ AllDone /\ HasParallelEdges /\ ListsTwice(nbunch1)
    /\ \E i, j \in 1 .. Len(edges) : i # j /\ edges[i] = edges[j] /\ edges[i] \in Rows(0)

\* C5: determinism. Whatever the order of the fragments' steps, the tensor the
\* coordinator wrote is the one the inputs determine: the same rows, in the
\* same order, with the same shape.
C5_Deterministic ==
    pc[0] = "done" =>
        /\ data[0] = RefData(RefEdges(S1, S2))
        /\ shape[0] = <<Cardinality(RefEdges(S1, S2)), 2>>

C5_Witness ==
    /\ pc[0] = "done" /\ fnum = 2 /\ Len(RowSeq(0)) = 2
    /\ owner[RowSeq(0)[1][1]] # owner[RowSeq(0)[2][1]]

\* C6: emptiness. When S1 names no vertex of the graph, every boundary stays
\* empty and the coordinator writes no row, with shape [0, 2].
C6_Empty ==
    (S1 \cap Oids = {}) =>
        /\ \A f \in Fids : boundary[f] = <<>>
        /\ pc[0] = "done" =>
              (data[0] = <<>> /\ shape[0] = <<0, 2>> /\ assigned[0] = 1)

C6_Witness ==
    /\ AllDone /\ S1 # {} /\ S1 \cap Oids = {} /\ S2 \cap Oids # {}
    /\ fnum = 2 /\ edges # <<>> /\ shape[0] = <<0, 2>>

\* C7: an identifier of S1 that names no vertex is dropped. PEval is not
\* stopped by it on any fragment (its resolution step can always be taken),
\* and the tensor the coordinator wrote is the one of S1 without that
\* identifier.
C7_Dropped ==
    (S1 \cap AbsentOids # {}) =>
        /\ \A f \in Fids : pc[f] = "start" => ENABLED Resolve(f)
        /\ pc[0] = "done" => data[0] = RefData(RefEdges(S1 \ AbsentOids, S2))

C7_Witness ==
    /\ AllDone /\ S1 \cap AbsentOids # {} /\ S1 \cap Oids # {}
    /\ data[0] # <<>>

\* C8: materialization. The tensor has shape [edge_count, 2] and 2 * edge_count
\* entries, edge_count the size of the merged boundary; row k holds the
\* external identifiers of the k-th pair, and no two rows are the same.
C8_Materialized ==
    pc[0] = "done" =>
        /\ shape[0] = <<Len(boundary[0]), 2>>
        /\ Len(data[0]) = 2 * Len(boundary[0])
        /\ \A k \in 1 .. Len(boundary[0]) :
              /\ data[0][2 * k - 1] \in Oids
              /\ data[0][2 * k] \in Oids
              /\ GidOf(data[0][2 * k - 1]) = boundary[0][k][1]
              /\ GidOf(data[0][2 * k]) = boundary[0][k][2]
        /\ NoDup(RowSeq(0))

C8_Witness ==
    /\ pc[0] = "done" /\ Len(boundary[0]) = 2
    /\ \E k \in 1 .. 2 : data[0][2 * k - 1] # boundary[0][k][1]

\* The pairs fragment f finds by itself: the expected rows whose source is an
\* inner vertex of f, as gid pairs.
PartialOf(f) == {GidPair(e) : e \in {d \in RefEdges(S1, S2) : owner[d[1]] = f}}
PairsOf(s) == {s[k] : k \in 1 .. Len(s)}

\* The pairs of the slots of fragments lo .. hi, as contributed to the gather.
SlotPairs(lo, hi) == UNION {PairsOf(slot[g][1]) : g \in lo .. hi}

C12_Barrier ==
    (\E f \in Fids : pc[f] \in {"merge", "done"}) =>
        /\ \A g \in Fids :
              /\ pc[g] \notin {"start", "scan"}
              /\ todo[g] = {}
              /\ slot[g] # <<>>
        /\ LET ref == RefEdges(S1, S2)
           IN  \A g \in Fids :
                   PairsOf(slot[g][1]) = {GidPair(e) : e \in {d \in ref : owner[d[1]] = g}}
        /\ \A f \in Fids :
              pc[f] \in {"merge", "done"} =>
                  /\ Len(all_boundary[f]) = fnum
                  /\ \A g \in Fids : all_boundary[f][g + 1] = slot[g][1]

C12_Witness ==
    /\ fnum = 2 /\ pc[0] = "merge" /\ pc[1] = "wait"
    /\ all_boundary[0][2] # <<>>

\* The gids a fragment has scanned so far.
Scanned(f) ==
    IF pc[f] = "start" THEN {}
    ELSE {gid \in node_gid_set[f] \ todo[f] : InnerVertexGid2VertexOk(f, gid)}

\* The gids subset1 resolves to.
ResolvedS1 == {GidOf(v) : v \in S1 \cap Oids}

\* C13: ownership. Until the gather releases a fragment, every pair of its
\* boundary has a source that subset1 lists, that the fragment has scanned
\* and that is an inner vertex of the fragment; what two fragments contribute
\* has no pair in common; and when the scans are over, every resolved gid of
\* subset1 has been scanned by one fragment and by no other.
C13_Ownership ==
    /\ \A f \in Fids :
          (pc[f] \in {"start", "scan", "wait"} /\ boundary[f] # <<>>) =>
              \A p \in PairsOf(boundary[f]) :
                  /\ p[1] \in ResolvedS1
                  /\ p[1] \in node_gid_set[f] \ todo[f]
                  /\ InnerVertexGid2VertexOk(f, p[1])
    /\ \A f, g \in Fids :
          (f < g /\ slot[f] # <<>> /\ slot[g] # <<>>) =>
              PairsOf(slot[f][1]) \cap PairsOf(slot[g][1]) = {}
    /\ (\A f \in Fids : pc[f] = "wait") =>
          /\ UNION {Scanned(f) : f \in Fids} = ResolvedS1
          /\ \A f, g \in Fids : f < g => Scanned(f) \cap Scanned(g) = {}

C13_Witness ==
    /\ fnum = 2 /\ pc[0] = "wait" /\ pc[1] = "wait"
    /\ boundary[0] # <<>> /\ boundary[1] # <<>>
    /\ Scanned(0) # {} /\ Scanned(1) # {}

\* C14: a second subset that is supplied and lists only identifiers the graph
\* does not have. The statement is that the targeted rule applies and no row
\* results.
C14_UnresolvedSecond ==
    (AllDone /\ nbunch2.kind = "array" /\ nbunch2.elems # <<>> /\ S2 \cap Oids = {}) =>
        Rows(0) = {}

\* C16: no partial result and no retry. While some fragment has not arrived
\* at the gather, no fragment can leave it or has left it, nothing has been
\* merged or written, the round cannot complete and the driver is still in
\* its initial phase; PEval is entered at most once on a fragment.
C16_NoPartial ==
    /\ \A f \in Fids : calls[f] <= 1
    /\ (\E g \in Fids : slot[g] = <<>>) =>
          /\ \A f \in Fids :
                /\ pc[f] \in {"start", "scan", "wait"}
                /\ all_boundary[f] = <<>>
                /\ pc[f] = "wait" => ~ENABLED AllGatherRecv(f)
          /\ assigned[0] = 0 /\ data[0] = <<>> /\ shape[0] = <<>>
          /\ phase = "Initial" /\ rounds = 0

C16_Witness ==
    /\ fnum = 2 /\ pc[0] = "wait" /\ pc[1] = "scan"
    /\ slot[0] # <<>> /\ slot[0][1] # <<>> /\ slot[1] = <<>>

\* What belongs to fragment f.
Local(f) ==
    <<pc[f], node_gid_set[f], node_gid_set_2[f], todo[f], boundary[f], slot[f],
      all_boundary[f], idx[f], data[f], shape[f], assigned[f], calls[f], sent[f]>>

\* A step changes what belongs to one fragment at most, and a boundary only
\* while its own fragment scans or, at the coordinator, merges.
C19_Step ==
    /\ Cardinality({f \in Fids : Local(f)' # Local(f)}) <= 1
    /\ boundary' # boundary =>
          \A f \in Fids :
              boundary'[f] # boundary[f] =>
                  \/ pc[f] = "scan"
                  \/ f = 0 /\ pc[f] = "merge" /\ \A g \in Fids \ {0} : Local(g)' = Local(g)
    /\ inputs' = inputs

\* C19: no shared mutable state. Every step of a fragment modifies that
\* fragment's own context only: no boundary is changed by another fragment's
\* step, and the coordinator's merge leaves the other boundaries as they are.
C19_NoSharing == [][C19_Step]_vars

C19_Witness ==
    /\ fnum = 2 /\ pc[0] = "merge" /\ idx[0] = 2
    /\ boundary[1] # <<>> /\ boundary[0] # slot[0][1]

\* Once the coordinator has written, nothing that was written or found changes.
C15_Step ==
    assigned[0] >= 1 =>
        /\ assigned' = assigned
        /\ data' = data /\ shape' = shape
        /\ boundary' = boundary

\* What holds of the coordinator's output in every state.
C15_State ==
    /\ assigned[0] <= 1
    /\ assigned[0] = 1 <=> pc[0] = "done"
    /\ assigned[0] = 0 => (data[0] = <<>> /\ shape[0] = <<>>)

\* C15: the output is written once and then frozen. The coordinator assigns
\* its output exactly once, when PEval returns on it; every later step, an
\* invocation of IncEval on any fragment included, leaves the output, its
\* shape and every fragment's boundary as they are.
C15_Frozen == [][C15_Step]_vars /\ []C15_State

C15_Witness ==
    /\ inc_calls = MaxIncEval /\ fnum = 2
    /\ assigned[0] = 1 /\ data[0] # <<>> /\ boundary[1] # <<>>

\* C17: malformed input is fatal. When subset1, or a non-empty subset2, does
\* not parse, PEval on a fragment can only throw: no fragment scans or
\* reaches the gather, every boundary stays as it was, nothing is written and
\* the round does not complete. Texts that parse never make PEval throw.
C17_Malformed ==
    /\ ParseError =>
          /\ \A f \in Fids :
                /\ pc[f] \in {"start", "failed"}
                /\ pc[f] = "start" => (ENABLED PEvalThrows(f) /\ ~ENABLED Resolve(f))
                /\ pc[f] = "failed" <=> calls[f] = 1
                /\ boundary[f] = <<>> /\ slot[f] = <<>> /\ todo[f] = {}
                /\ assigned[f] = 0 /\ data[f] = <<>> /\ shape[f] = <<>>
          /\ phase = "Initial" /\ rounds = 0
    /\ ~ParseError => \A f \in Fids : pc[f] # "failed"

C17_Witness ==
    /\ fnum = 2 /\ pc[0] = "failed" /\ pc[1] = "failed"
    /\ nbunch1.kind = "array" /\ S1 \cap Oids # {} /\ nbunch2 = Malformed
    /\ edges # <<>>

\* C18: termination. When every step that can be taken is taken in the end,
\* every fragment finishes its scan and returns from PEval, the coordinator
\* has written, and the driver reaches its last phase.
C18_Terminates ==
    <>(/\ AllDone
       /\ \A f \in Fids : todo[f] = {} /\ slot[f] # <<>>
       /\ assigned[0] = 1
       /\ phase = "Terminated")

C18_Witness == phase = "Terminated" /\ fnum = 2 /\ Len(boundary[0]) = 2

\* A set of pairs as a std::set holds it.
RECURSIVE AsStdSet(_)
AsStdSet(S) ==
    IF S = {} THEN <<>>
    ELSE LET p == CHOOSE q \in S : \A r \in S : r = q \/ PairLess(q, r)
         IN  <<p>> \o AsStdSet(S \ {p})

\* The boundary a first PEval leaves in the context of fragment f: at the
\* coordinator what all fragments found, elsewhere what f found by itself.
FirstBoundary(f) ==
    AsStdSet(IF f = 0 THEN UNION {PartialOf(g) : g \in Fids}
             ELSE IF f \in Fids THEN PartialOf(f) ELSE {})

\* The contexts as a first PEval left them, the driver about to run the
\* initial phase on them once more with the same inputs.
InitRerun ==
    /\ InitGraph
    /\ nbunch1 \in Nbunch1s
    /\ nbunch2 \in Nbunch2s
    /\ pc = [f \in 0 .. (MaxFrag - 1) |-> "start"]
    /\ node_gid_set = [f \in 0 .. (MaxFrag - 1) |-> {}]
    /\ node_gid_set_2 = [f \in 0 .. (MaxFrag - 1) |-> {}]
    /\ todo = [f \in 0 .. (MaxFrag - 1) |-> {}]
    /\ boundary = [f \in 0 .. (MaxFrag - 1) |-> FirstBoundary(f)]
    /\ slot = [f \in 0 .. (MaxFrag - 1) |-> <<>>]
    /\ all_boundary = [f \in 0 .. (MaxFrag - 1) |-> <<>>]
    /\ idx = [f \in 0 .. (MaxFrag - 1) |-> 0]
    /\ data = [f \in 0 .. (MaxFrag - 1) |->
                  IF f = 0 THEN TensorData(FirstBoundary(0)) ELSE <<>>]
    /\ shape = [f \in 0 .. (MaxFrag - 1) |->
                   IF f = 0 THEN TensorShape(TensorData(FirstBoundary(0))) ELSE <<>>]
    /\ assigned = [f \in 0 .. (MaxFrag - 1) |-> IF f = 0 THEN 1 ELSE 0]
    /\ calls = [f \in 0 .. (MaxFrag - 1) |-> IF f \in Fids THEN 1 ELSE 0]
    /\ sent = [f \in 0 .. (MaxFrag - 1) |-> 0]
    /\ phase = "Initial"
    /\ rounds = 0
    /\ inc_calls = 0

SpecRerun == InitRerun /\ [][Next]_vars

\* What a first PEval leaves behind is what InitRerun starts from.
FirstRunLeaves ==
    phase = "Terminated" =>
        /\ \A f \in 0 .. (MaxFrag - 1) : boundary[f] = FirstBoundary(f)
        /\ data[0] = TensorData(FirstBoundary(0))
        /\ shape[0] = TensorShape(TensorData(FirstBoundary(0)))
        /\ \A f \in Fids \ {0} : data[f] = <<>> /\ shape[f] = <<>>

\* In a second run no boundary changes, and no row of the output.
C20_Step == boundary' = boundary /\ data' = data /\ shape' = shape

\* When the second run has returned everywhere, the coordinator has written
\* once more, the rows are those of the inputs, and the boundary of every
\* other fragment is what that fragment finds by itself.
C20_State ==
    /\ pc[0] = "done" => assigned[0] = 2
    /\ AllDone =>
          /\ data[0] = RefData(RefEdges(S1, S2))
          /\ shape[0] = <<Len(boundary[0]), 2>>
          /\ NoDup(RowSeq(0))
          /\ PairsOf(boundary[0]) = UNION {PartialOf(g) : g \in Fids}
          /\ \A f \in Fids \ {0} : PairsOf(boundary[f]) = PartialOf(f)

\* C20: re-evaluation is idempotent. PEval does not clear the boundary it
\* finds in the context; run once more on the contexts a first run left, with
\* the same inputs, it leaves every boundary as the first run did, at the
\* coordinator the merged one and elsewhere the fragment's own, and writes
\* the rows the first run wrote.
C20_Idempotent == [][C20_Step]_vars /\ []C20_State

C20_Witness ==
    /\ AllDone /\ fnum = 2 /\ calls[0] = 2 /\ assigned[0] = 2
    /\ boundary[1] # <<>>
    /\ Len(slot[0][1]) > Len(slot[1][1])
    /\ PairsOf(slot[0][1]) \cap PairsOf(slot[1][1]) # {}

\* C9: coordinator exclusivity. A fragment other than fragment 0 never writes
\* a tensor, and once it is past the gather its boundary is still what it
\* found by itself and handed over.
C9_Exclusive ==
    \A f \in Fids \ {0} :
        /\ assigned[f] = 0 /\ data[f] = <<>> /\ shape[f] = <<>>
        /\ pc[f] = "done" =>
              (boundary[f] = slot[f][1] /\ PairsOf(boundary[f]) = PartialOf(f))

C9_Witness ==
    /\ AllDone /\ fnum = 2
    /\ boundary[1] # <<>>
    /\ Len(boundary[0]) > Len(boundary[1])

\* The steps of the driver's state machine.
C10_PhaseStep ==
    \/ phase' = phase
    \/ phase = "Initial" /\ phase' = "Evaluated"
    \/ phase = "Evaluated" /\ phase' = "Terminated"

\* What holds of every state under the superstep contract.
C10_State ==
    /\ \A f \in Fids : calls[f] <= 1 /\ sent[f] = 0
    /\ phase = "Initial" => rounds = 0
    /\ phase # "Initial" =>
          /\ rounds = 1
          /\ \A f \in Fids : calls[f] = 1 /\ pc[f] = "done"
          /\ assigned[0] = 1
    /\ phase = "Evaluated" => ENABLED Terminate

\* C10: every step keeps the driver on the path Initial -> Evaluated ->
\* Terminated, and every state has PEval invoked at most once per fragment, no
\* message emitted, and one round completed with the result written once the
\* driver has left Initial.
C10_Superstep == [][C10_PhaseStep]_vars /\ []C10_State

C10_Witness == phase = "Terminated" /\ fnum = 2 /\ data[0] # <<>>

====
